---- MODULE Spec2Model ----
(***************************************************************************)
(* Model of InteractiveTerminal (src/SCRIPT_LAUNCHER.py): the pty-backed   *)
(* process session of the script launcher, with the child process, the     *)
(* pty buffers and the descriptor table as its environment.                *)
(***************************************************************************)
EXTENDS Integers, Sequences, FiniteSets, TLC

\* ---------------------------------------------------------------- bounds
MaxRuns  == 2      \* run_command calls in one behaviour
MaxLines == 2      \* lines echoed by send_input in one session lifecycle
MaxEmits == 3      \* processFinished emissions in one session lifecycle

\* ------------------------------------------------------ program constants
ReadChunk == 1024  \* os.read(self.master_fd, 1024)
EIO       == 5     \* e.errno == 5
SIGTERM   == 15    \* signal.SIGTERM

None == 0          \* Python None for process / master_fd / slave_fd

Lines    == <<"a", "b", "c", "d">>         \* the lines typed into args_input, in order
Progs    == {"writer", "echo"}             \* scripts a session can run
Starts   == {"ok", "openpty", "fcntl", "termios", "popen"}   \* where run_command raises
Errnos   == {EIO, 9}                       \* errno of a failing os.read
Reads    ==                                \* what a tick's select / os.read does
    {[what |-> w, errno |-> 0] : w \in {"ok", "select_exc", "eof"}}
        \cup {[what |-> "oserror", errno |-> e] : e \in Errnos}
FixedString == "hello"                     \* what the writer script prints

VARIABLES
    process,     \* self.process: None or the pid of the Popen handle
    master_fd,   \* self.master_fd: None or a descriptor
    slave_fd,    \* self.slave_fd: None or a descriptor
    is_running,  \* self.is_running
    timer,       \* self.timer.isActive()
    output,      \* self.output: the chunks inserted into the QTextEdit
    fds,         \* descriptor table: per allocated descriptor, open? and os.close calls
    children,    \* by pid: the spawned children that live or are held by self.process
    ptyIn,       \* lines written to the master, not yet read by the child
    ptyOut,      \* tokens written by the child, not yet read from the master
    log,         \* history: appendText calls, processFinished emissions and kills of this lifecycle
    nruns,       \* history: run_command calls so far
    op           \* history: the operation that ran last, with its inputs

vars == <<process, master_fd, slave_fd, is_running, timer, output, fds,
          children, ptyIn, ptyOut, log, nruns, op>>

\* The whole state as one record, so that a handler's nested calls compose.
State ==
    [process |-> process, master_fd |-> master_fd, slave_fd |-> slave_fd,
     is_running |-> is_running, timer |-> timer, output |-> output,
     fds |-> fds, children |-> children, ptyIn |-> ptyIn, ptyOut |-> ptyOut,
     log |-> log]

Commit(s) ==
    /\ process' = s.process
    /\ master_fd' = s.master_fd
    /\ slave_fd' = s.slave_fd
    /\ is_running' = s.is_running
    /\ timer' = s.timer
    /\ output' = s.output
    /\ fds' = s.fds
    /\ children' = s.children
    /\ ptyIn' = s.ptyIn
    /\ ptyOut' = s.ptyOut
    /\ log' = s.log

Min(a, b) == IF a < b THEN a ELSE b

\* ------------------------------------------------------------ log entries
Entry(kind, data, code, error) ==
    [ev |-> "text", kind |-> kind, data |-> data, code |-> code, error |-> error]

Mark(ev) ==
    [ev |-> ev, kind |-> "", data |-> <<>>, code |-> 0, error |-> FALSE]

Count(seq, P(_)) == Cardinality({i \in 1..Len(seq) : P(seq[i])})

IsEmit(e) == e.ev = "emit"
IsText(e) == e.ev = "text"

Emits(l) == Count(l, IsEmit)

\* -------------------------------------------------------------- the sink
\* append_text(text, error=False): error selects the red character format.
append_text(s, kind, data, code, error) ==
    [s EXCEPT !.output = Append(@, Entry(kind, data, code, error)),
              !.log = Append(@, Entry(kind, data, code, error))]

\* append(text) forwards to append_text(text) and never passes error.
append(s, kind, data, code) == append_text(s, kind, data, code, FALSE)

clear_terminal(s) == [s EXCEPT !.output = <<>>]

\* processFinished.emit()
emit(s) == [s EXCEPT !.log = Append(@, Mark("emit"))]

\* -------------------------------------------------------- the environment
\* os.close(fd)
os_close(tab, fd) ==
    [tab EXCEPT ![fd] = [open |-> FALSE, closes |-> @.closes + 1]]

\* process.poll() is None: the child lives.
Alive(s, pid) == s.children[pid].st = "alive"

\* os.killpg(os.getpgid(pid), SIGTERM)
killpg(ch, pid) == [ch EXCEPT ![pid].signals = @ + 1]

\* An exited child nobody holds a handle of is gone from the process table.
Forget(ch, pid) == [p \in DOMAIN ch \ {pid} |-> ch[p]]

\* pty.openpty(): two fresh descriptors and an empty line in both directions.
openpty(s) ==
    [s EXCEPT !.fds = @ \o << [open |-> TRUE, closes |-> 0], [open |-> TRUE, closes |-> 0] >>,
              !.master_fd = Len(s.fds) + 1,
              !.slave_fd = Len(s.fds) + 2,
              !.ptyIn = <<>>,
              !.ptyOut = <<>>]

\* subprocess.Popen(cmd_args, stdin=slave, stdout=slave, stderr=slave, preexec_fn=os.setsid)
Popen(s, prog, pid) ==
    [s EXCEPT !.children = @ @@ (pid :> [prog |-> prog, st |-> "alive", rc |-> 0,
                                         wrote |-> FALSE, signals |-> 0]),
              !.process = pid]

\* data.decode('utf-8', errors='replace'): valid text is kept, an invalid
\* byte sequence becomes the replacement character.
decode_token(t) == IF t = "\\xff" THEN "U+FFFD" ELSE t

decode(data) == [i \in 1..Len(data) |-> decode_token(data[i])]

\* print("echo: " + line) of the echo script
Echo(line) == CASE line = "a" -> "echo: a"
                [] line = "b" -> "echo: b"
                [] line = "c" -> "echo: c"
                [] line = "d" -> "echo: d"
                [] OTHER -> "echo: "

\* ------------------------------------------------------------ handlers
\* stop_process without its last block: the slave is neither closed nor cleared
stop_process_keeps_slave(s) ==
    LET s1 == [s EXCEPT !.is_running = FALSE, !.timer = FALSE]
        s2 == IF s1.process # None
              THEN [s1 EXCEPT !.children = IF Alive(s1, s1.process)
                                           THEN killpg(@, s1.process)
                                           ELSE Forget(@, s1.process),
                              !.process = None]
              ELSE s1
        s3 == IF s2.master_fd # None
              THEN [s2 EXCEPT !.fds = os_close(@, s2.master_fd),
                              !.master_fd = None,
                              !.ptyIn = <<>>,
                              !.ptyOut = <<>>]
              ELSE s2
    IN  emit(s3)

\* stop_process that signals the child and keeps its handle
stop_process_keeps_handle(s) ==
    LET s1 == [s EXCEPT !.is_running = FALSE, !.timer = FALSE]
        s2 == IF s1.process # None
              THEN [s1 EXCEPT !.children = IF Alive(s1, s1.process)
                                           THEN killpg(@, s1.process)
                                           ELSE @]
              ELSE s1
        s3 == IF s2.master_fd # None
              THEN [s2 EXCEPT !.fds = os_close(@, s2.master_fd),
                              !.master_fd = None,
                              !.ptyIn = <<>>,
                              !.ptyOut = <<>>]
              ELSE s2
        s4 == IF s3.slave_fd # None
              THEN [s3 EXCEPT !.fds = os_close(@, s3.slave_fd), !.slave_fd = None]
              ELSE s3
    IN  emit(s4)

\* stop_process that closes the descriptors and does not set them to None
stop_process_keeps_numbers(s) ==
    LET s1 == [s EXCEPT !.is_running = FALSE, !.timer = FALSE]
        s2 == IF s1.process # None
              THEN [s1 EXCEPT !.children = IF Alive(s1, s1.process)
                                           THEN killpg(@, s1.process)
                                           ELSE Forget(@, s1.process),
                              !.process = None]
              ELSE s1
        s3 == IF s2.master_fd # None
              THEN [s2 EXCEPT !.fds = os_close(@, s2.master_fd),
                              !.ptyIn = <<>>,
                              !.ptyOut = <<>>]
              ELSE s2
        s4 == IF s3.slave_fd # None
              THEN [s3 EXCEPT !.fds = os_close(@, s3.slave_fd)]
              ELSE s3
    IN  emit(s4)

\* InteractiveTerminal.stop_process
stop_process(s) ==
    LET s1 == [s EXCEPT !.is_running = FALSE, !.timer = FALSE]
        s2 == IF s1.process # None
              THEN [s1 EXCEPT !.children = IF Alive(s1, s1.process)
                                           THEN killpg(@, s1.process)
                                           ELSE Forget(@, s1.process),
                              !.process = None]
              ELSE s1
        s3 == IF s2.master_fd # None
              THEN [s2 EXCEPT !.fds = os_close(@, s2.master_fd),
                              !.master_fd = None,
                              !.ptyIn = <<>>,
                              !.ptyOut = <<>>]
              ELSE s2
        s4 == IF s3.slave_fd # None
              THEN [s3 EXCEPT !.fds = os_close(@, s3.slave_fd), !.slave_fd = None]
              ELSE s3
    IN  emit(s4)

\* an except branch that closes the master and forgets the slave
start_failed_closes_master(s) ==
    LET s1 == [append(s, "err_start", <<>>, 0) EXCEPT !.is_running = FALSE]
        s2 == IF s1.master_fd # None
              THEN [s1 EXCEPT !.fds = os_close(@, s1.master_fd), !.master_fd = None]
              ELSE s1
    IN  emit(s2)

\* an except branch that leaves is_running as the try block set it
start_failed_keeps_running(s) ==
    emit(append(s, "err_start", <<>>, 0))

\* the except branch of run_command
start_failed(s) ==
    emit([append(s, "err_start", <<>>, 0) EXCEPT !.is_running = FALSE])

\* run_command that starts the timer before it spawns the child
run_command_timer_early(s, prog, how, pid) ==
    LET s1 == append(clear_terminal(s), "cmd", <<prog>>, 0)
        s2 == stop_process(s1)
        s3 == openpty(s2)
        s4 == [s3 EXCEPT !.is_running = TRUE, !.timer = TRUE]
    IN  CASE how = "openpty" -> start_failed(s2)
          [] how \in {"fcntl", "termios"} -> start_failed(s3)
          [] how = "popen" -> start_failed(s4)
          [] OTHER -> Popen(s4, prog, pid)

\* run_command without "Stop any existing process"
run_command_no_stop(s, prog, how, pid) ==
    LET s1 == append(clear_terminal(s), "cmd", <<prog>>, 0)
        s3 == openpty(s1)
        s4 == [s3 EXCEPT !.is_running = TRUE]
    IN  CASE how = "openpty" -> start_failed(s1)
          [] how \in {"fcntl", "termios"} -> start_failed(s3)
          [] how = "popen" -> start_failed(s4)
          [] OTHER -> [Popen(s4, prog, pid) EXCEPT !.timer = TRUE]

\* InteractiveTerminal.run_command; how names the call that raises, if any,
\* pid is the process id a spawned child gets.
run_command(s, prog, how, pid) ==
    LET s1 == append(clear_terminal(s), "cmd", <<prog>>, 0)
        s2 == stop_process(s1)
        s3 == openpty(s2)
        s4 == [s3 EXCEPT !.is_running = TRUE]
    IN  CASE how = "openpty" -> start_failed(s2)
          [] how \in {"fcntl", "termios"} -> start_failed(s3)
          [] how = "popen" -> start_failed(s4)
          [] OTHER -> [Popen(s4, prog, pid) EXCEPT !.timer = TRUE]

\* send_input without its test of an empty line
send_input_echoes_empty(s, text, wfail) ==
    IF ~s.is_running \/ s.master_fd = None THEN s
    ELSE LET s1 == append(s, "input", <<text>>, 0)
         IN  IF wfail THEN append(s1, "err_send", <<>>, 0)
             ELSE [s1 EXCEPT !.ptyIn = Append(@, text)]

\* send_input that writes the line and does not echo it to the sink
send_input_no_echo(s, text, wfail) ==
    IF ~s.is_running \/ s.master_fd = None THEN s
    ELSE IF text = "" THEN s
    ELSE IF wfail THEN append(s, "err_send", <<>>, 0)
    ELSE [s EXCEPT !.ptyIn = Append(@, text)]

\* InteractiveTerminal.send_input; wfail: os.write raises OSError.
send_input(s, text, wfail) ==
    IF ~s.is_running \/ s.master_fd = None THEN s
    ELSE IF text = "" THEN s
    ELSE LET s1 == append(s, "input", <<text>>, 0)
         IN  IF wfail THEN append(s1, "err_send", <<>>, 0)
             ELSE [s1 EXCEPT !.ptyIn = Append(@, text)]

\* ScriptLauncherApp.send_terminal_input
send_terminal_input(s, text, wfail) ==
    IF text # "" THEN send_input(s, text, wfail) ELSE s

\* os.read(self.master_fd, 1024)
os_read(buf) == SubSeq(buf, 1, Min(Len(buf), ReadChunk))

\* read_pty that takes errno 5 for a passing condition and polls on
read_pty_eio_retries(s, r) ==
    IF ~s.is_running \/ s.master_fd = None THEN [s EXCEPT !.timer = FALSE]
    ELSE IF s.process # None /\ ~Alive(s, s.process)
    THEN stop_process(append(s, "exit", <<>>, s.children[s.process].rc))
    ELSE IF r.what = "select_exc"
    THEN stop_process(append(s, "err_read", <<>>, 0))
    ELSE IF r.what = "ok" /\ s.ptyOut = <<>> THEN s
    ELSE IF r.what = "ok"
    THEN [append_text(s, "out", decode(os_read(s.ptyOut)), 0, FALSE)
            EXCEPT !.ptyOut = SubSeq(@, Len(os_read(@)) + 1, Len(@))]
    ELSE IF r.what = "eof" THEN stop_process(s)
    ELSE IF r.errno = EIO THEN s
    ELSE stop_process(append(s, "err_pty", <<>>, r.errno))

\* read_pty that reads without asking select and takes "nothing there" for EOF
read_pty_stops_when_idle(s, r) ==
    IF ~s.is_running \/ s.master_fd = None THEN [s EXCEPT !.timer = FALSE]
    ELSE IF s.process # None /\ ~Alive(s, s.process)
    THEN stop_process(append(s, "exit", <<>>, s.children[s.process].rc))
    ELSE IF r.what = "select_exc"
    THEN stop_process(append(s, "err_read", <<>>, 0))
    ELSE IF r.what = "ok" /\ s.ptyOut = <<>> THEN stop_process(s)
    ELSE IF r.what = "ok"
    THEN [append_text(s, "out", decode(os_read(s.ptyOut)), 0, FALSE)
            EXCEPT !.ptyOut = SubSeq(@, Len(os_read(@)) + 1, Len(@))]
    ELSE IF r.what = "eof" THEN stop_process(s)
    ELSE IF r.errno = EIO THEN stop_process(s)
    ELSE stop_process(append(s, "err_pty", <<>>, r.errno))

\* read_pty that does not ask process.poll() whether the child has exited
read_pty_no_poll(s, r) ==
    IF ~s.is_running \/ s.master_fd = None THEN [s EXCEPT !.timer = FALSE]
    ELSE IF r.what = "select_exc"
    THEN stop_process(append(s, "err_read", <<>>, 0))
    ELSE IF r.what = "ok" /\ s.ptyOut = <<>> THEN s
    ELSE IF r.what = "ok"
    THEN [append_text(s, "out", decode(os_read(s.ptyOut)), 0, FALSE)
            EXCEPT !.ptyOut = SubSeq(@, Len(os_read(@)) + 1, Len(@))]
    ELSE IF r.what = "eof" THEN stop_process(s)
    ELSE IF r.errno = EIO THEN stop_process(s)
    ELSE stop_process(append(s, "err_pty", <<>>, r.errno))

\* read_pty without its first test: select.select([None], ...) raises
\* TypeError, which the outer except reports before it stops the session
read_pty_no_guard(s, r) ==
    IF s.master_fd = None
    THEN stop_process(append(s, "err_read", <<>>, 0))
    ELSE IF s.process # None /\ ~Alive(s, s.process)
    THEN stop_process(append(s, "exit", <<>>, s.children[s.process].rc))
    ELSE IF r.what = "select_exc"
    THEN stop_process(append(s, "err_read", <<>>, 0))
    ELSE IF r.what = "ok" /\ s.ptyOut = <<>> THEN s
    ELSE IF r.what = "ok"
    THEN [append_text(s, "out", decode(os_read(s.ptyOut)), 0, FALSE)
            EXCEPT !.ptyOut = SubSeq(@, Len(os_read(@)) + 1, Len(@))]
    ELSE IF r.what = "eof" THEN stop_process(s)
    ELSE IF r.errno = EIO THEN stop_process(s)
    ELSE stop_process(append(s, "err_pty", <<>>, r.errno))

\* InteractiveTerminal.read_pty; r: what select / os.read do in this tick.
read_pty(s, r) ==
    IF ~s.is_running \/ s.master_fd = None THEN [s EXCEPT !.timer = FALSE]
    ELSE IF s.process # None /\ ~Alive(s, s.process)
    THEN stop_process(append(s, "exit", <<>>, s.children[s.process].rc))
    ELSE IF r.what = "select_exc"
    THEN stop_process(append(s, "err_read", <<>>, 0))
    ELSE IF r.what = "ok" /\ s.ptyOut = <<>> THEN s
    ELSE IF r.what = "ok"
    THEN [append_text(s, "out", decode(os_read(s.ptyOut)), 0, FALSE)
            EXCEPT !.ptyOut = SubSeq(@, Len(os_read(@)) + 1, Len(@))]
    ELSE IF r.what = "eof" THEN stop_process(s)
    ELSE IF r.errno = EIO THEN stop_process(s)
    ELSE stop_process(append(s, "err_pty", <<>>, r.errno))

\* ------------------------------------------------------------- the spec
Op(name, arg, fail, errno) == [name |-> name, arg |-> arg, fail |-> fail, errno |-> errno]

IsInput(e) == e.ev = "text" /\ e.kind = "input"

\* InteractiveTerminal.__init__
Init ==
    /\ process = None
    /\ master_fd = None
    /\ slave_fd = None
    /\ is_running = FALSE
    /\ timer = FALSE
    /\ output = <<>>
    /\ fds = <<>>
    /\ children = <<>>
    /\ ptyIn = <<>>
    /\ ptyOut = <<>>
    /\ log = <<>>
    /\ nruns = 0
    /\ op = Op("init", "", FALSE, 0)

\* ScriptLauncherApp.run_script -> terminal.run_command(python, [path], cwd)
RunCommand ==
    /\ nruns < MaxRuns
    /\ \E prog \in Progs, how \in Starts :
          /\ Commit(run_command([State EXCEPT !.log = <<>>], prog, how, nruns + 1))
          /\ op' = Op("run_command", prog, how # "ok", 0)
          /\ nruns' = nruns + 1

\* what args_input can hold: nothing, or the next line the user types
\* (send_input looks at no more of a line than whether it is empty)
Texts == {"", Lines[Count(log, IsInput) + 1]}

\* os.write is reached only by a non-empty line of a running session
Writes(text) ==
    IF is_running /\ master_fd # None /\ text # "" THEN BOOLEAN ELSE {FALSE}

\* a direct call of terminal.send_input(text)
SendInput ==
    \E text \in Texts :
      \E wfail \in Writes(text) :
        /\ Count(log, IsInput) < MaxLines
        /\ Commit(send_input(State, text, wfail))
        /\ op' = Op("send_input", text, wfail, 0)
        /\ UNCHANGED nruns

\* returnPressed in args_input
SendTerminalInput ==
    \E text \in Texts :
      \E wfail \in Writes(text) :
        /\ Count(log, IsInput) < MaxLines
        /\ Commit(send_terminal_input(State, text, wfail))
        /\ op' = Op("send_terminal_input", text, wfail, 0)
        /\ UNCHANGED nruns

\* select / os.read are reached only when the session runs and the child lives
ReadsNow ==
    IF is_running /\ master_fd # None /\ (process = None \/ children[process].st = "alive")
    THEN Reads ELSE {[what |-> "ok", errno |-> 0]}

\* timer.timeout while the timer is active
Tick ==
    /\ timer
    /\ \E r \in ReadsNow :
          /\ Commit(read_pty(State, r))
          /\ op' = Op("read_pty", r.what, FALSE, r.errno)
          /\ UNCHANGED nruns

\* read_pty entered although the timer has been stopped
StaleTick ==
    /\ ~timer
    /\ \E r \in ReadsNow :
          /\ Commit(read_pty(State, r))
          /\ op' = Op("stale_read_pty", r.what, FALSE, r.errno)
          /\ UNCHANGED nruns

\* a direct call of terminal.stop_process()
StopProcess ==
    /\ Emits(log) < MaxEmits
    /\ Commit(stop_process(State))
    /\ op' = Op("stop_process", "", FALSE, 0)
    /\ UNCHANGED nruns

\* child pid ends with return code rc; Popen.poll() of its handle returns rc from now on
Exited(pid, rc) ==
    IF pid = process
    THEN [children EXCEPT ![pid].st = "exited", ![pid].rc = rc]
    ELSE Forget(children, pid)

\* the writer script prints its string to the slave
ChildWrite ==
    /\ process # None /\ master_fd # None
    /\ children[process].prog = "writer"
    /\ children[process].st = "alive"
    /\ ~children[process].wrote
    /\ children' = [children EXCEPT ![process].wrote = TRUE]
    /\ ptyOut' = Append(ptyOut, FixedString)
    /\ op' = Op("child_write", "", FALSE, 0)
    /\ UNCHANGED <<process, master_fd, slave_fd, is_running, timer, output, fds,
                   ptyIn, log, nruns>>

\* the writer script returns 0 after printing
ChildExit ==
    /\ \E pid \in DOMAIN children :
          /\ children[pid].prog = "writer"
          /\ children[pid].st = "alive"
          /\ children[pid].wrote
          /\ children' = Exited(pid, 0)
    /\ op' = Op("child_exit", "", FALSE, 0)
    /\ UNCHANGED <<process, master_fd, slave_fd, is_running, timer, output, fds,
                   ptyIn, ptyOut, log, nruns>>

\* the echo script reads a line from the slave and prints it back
ChildEcho ==
    /\ process # None /\ master_fd # None
    /\ children[process].prog = "echo"
    /\ children[process].st = "alive"
    /\ ptyIn # <<>>
    /\ ptyIn' = Tail(ptyIn)
    /\ ptyOut' = Append(ptyOut, Echo(Head(ptyIn)))
    /\ op' = Op("child_echo", "", FALSE, 0)
    /\ UNCHANGED <<process, master_fd, slave_fd, is_running, timer, output, fds,
                   children, log, nruns>>

\* the child of the running session is killed from outside (kill -9)
Kill ==
    /\ is_running /\ process # None
    /\ children[process].st = "alive"
    /\ children' = Exited(process, -9)
    /\ log' = Append(log, Mark("kill"))
    /\ op' = Op("kill", "", FALSE, 0)
    /\ UNCHANGED <<process, master_fd, slave_fd, is_running, timer, output, fds,
                   ptyIn, ptyOut, nruns>>

\* a child that was sent SIGTERM dies of it
ChildTerminated ==
    /\ \E pid \in DOMAIN children :
          /\ children[pid].st = "alive"
          /\ children[pid].signals > 0
          /\ children' = Exited(pid, -SIGTERM)
    /\ op' = Op("child_terminated", "", FALSE, 0)
    /\ UNCHANGED <<process, master_fd, slave_fd, is_running, timer, output, fds,
                   ptyIn, ptyOut, log, nruns>>

Next ==
    \/ RunCommand
    \/ SendInput
    \/ SendTerminalInput
    \/ Tick
    \/ StaleTick
    \/ StopProcess
    \/ ChildWrite
    \/ ChildExit
    \/ ChildEcho
    \/ Kill
    \/ ChildTerminated

Spec == Init /\ [][Next]_vars

\* timer.start(50): while the timer is active its timeout keeps coming, so a
\* tick that stays possible is eventually taken.
FairSpec == Spec /\ WF_vars(Tick)

\* ------------------------------------------------------ helpers of claims
Last(seq) == seq[Len(seq)]

\* the indices of seq, in order, whose element satisfies P
RECURSIVE Indices(_, _, _)
Indices(seq, P(_), i) ==
    IF i > Len(seq) THEN <<>>
    ELSE IF P(seq[i]) THEN <<i>> \o Indices(seq, P, i + 1)
    ELSE Indices(seq, P, i + 1)

Cleared == master_fd = None /\ slave_fd = None /\ process = None /\ ~is_running

NoOpenDescriptor == \A fd \in 1..Len(fds) : ~fds[fd].open

\* a step in which stop_process ran to its end: a direct call, or a tick that
\* ended in it (its emission is the last thing the tick did)
StopReturned ==
    \/ op'.name = "stop_process"
    \/ /\ op'.name \in {"read_pty", "stale_read_pty"}
       /\ Len(log') > Len(log)
       /\ IsEmit(Last(log'))

\* ------------------------------------------------------------------- C1
\* C1: whenever stop_process() returns, from whatever state it was called
\* and however often before, master_fd, slave_fd and the process handle are
\* None and is_running is false.
C1_StopClears == [][StopReturned => Cleared']_vars

\* a second direct stop_process() in a row has returned, after a session
\* that had allocated descriptors
C1_Witness ==
    /\ op.name = "stop_process"
    /\ Len(fds) > 0
    /\ Len(log) >= 3
    /\ IsEmit(log[Len(log)]) /\ IsEmit(log[Len(log) - 1]) /\ IsEmit(log[Len(log) - 2])

\* ------------------------------------------------------------------- C2
\* C2 (as claimed): after a run_command that failed to start the child no
\* descriptor is open and the state is that after stop_process().
C2_FailedStartLeavesNothing ==
    (op.name = "run_command" /\ op.fail) => (Cleared /\ NoOpenDescriptor)

\* ------------------------------------------------------------------- C3
\* C3 (as claimed): processFinished is emitted exactly once per lifecycle:
\* not before the session is back in Idle, and once when it is, a session
\* whose start failed included.
C3_NotifiedExactlyOnce ==
    nruns > 0 => IF is_running THEN Emits(log) = 0 ELSE Emits(log) = 1

\* ------------------------------------------------------------------- C4
IsOut(e) == e.ev = "text" /\ e.kind = "out"

IsExit0(e) == e.ev = "text" /\ e.kind = "exit" /\ e.code = 0

IsFixedChunk(e) == IsOut(e) /\ e.data = <<FixedString>>

\* the session of this lifecycle runs the given script
SessionOf(prog) == log # <<>> /\ log[1].data = <<prog>>

\* C4 (as claimed): once a tick has seen the writer script exit with code
\* 0, the sink has received exactly one chunk, carrying the script's string,
\* and one exit-code-0 message, processFinished was emitted once and the
\* session is Idle, whatever the order of the write, the exit and the ticks.
C4_WriterSessionComplete ==
    (SessionOf("writer") /\ Count(log, IsExit0) > 0) =>
        /\ Count(log, IsOut) = 1
        /\ Count(log, IsFixedChunk) = 1
        /\ Count(log, IsExit0) = 1
        /\ Emits(log) = 1
        /\ Cleared /\ ~timer

\* ------------------------------------------------------------------- C5
SendOps == {"send_input", "send_terminal_input"}

\* C5: send_input of an empty line, or while is_running is false or
\* master_fd is None, appends nothing to the sink, writes nothing to the
\* master and leaves the session as it was.
C5_SendInputNoop ==
    [][(op'.name \in SendOps /\ (op'.arg = "" \/ ~is_running \/ master_fd = None))
        => UNCHANGED <<process, master_fd, slave_fd, is_running, timer, output,
                       fds, children, ptyIn, ptyOut, log>>]_vars

\* send_input("") has returned in a running session
C5_Witness ==
    /\ op.name = "send_input" /\ op.arg = ""
    /\ is_running /\ master_fd # None

\* ------------------------------------------------------------------- C6
IsKill(e) == e.ev = "kill"

EmitsAfter(i) == Cardinality({j \in (i + 1)..Len(log) : IsEmit(log[j])})

\* C6 (as claimed): the external kill of a running session's child leads to
\* exactly one processFinished: neither a later tick nor a repeated
\* stop_process emits a second one.
C6_KillNotifiedOnce ==
    \A i \in 1..Len(log) : IsKill(log[i]) => EmitsAfter(i) <= 1

\* ------------------------------------------------------------------- C7
IsFatalError(e) == e.ev = "text" /\ e.kind \in {"err_start", "err_read", "err_pty"}

\* C7 (as claimed): the message of an error that ends a session is appended
\* to the sink error-flagged, and before processFinished is emitted.
C7_FatalErrorsFlagged ==
    \A i \in 1..Len(log) :
        IsFatalError(log[i]) => (log[i].error /\ EmitsAfter(i) >= 1)

\* ------------------------------------------------------------------- C8
\* the lines echoed to the sink, with their place in the log; written tells
\* whether os.write took the line (no "Error sending input" follows it)
RECURSIVE EchoedFrom(_)
EchoedFrom(i) ==
    IF i > Len(log) THEN <<>>
    ELSE IF IsInput(log[i])
    THEN << [line |-> log[i].data[1], at |-> i,
             written |-> ~(i < Len(log) /\ log[i + 1].kind = "err_send")] >>
         \o EchoedFrom(i + 1)
    ELSE EchoedFrom(i + 1)

Echoed == EchoedFrom(1)

IsWritten(x) == x.written

Written == SelectSeq(Echoed, IsWritten)

\* the output lines the sink received, chunk after chunk, with their place in the log
RECURSIVE OutLinesFrom(_)
OutLinesFrom(i) ==
    IF i > Len(log) THEN <<>>
    ELSE IF IsOut(log[i])
    THEN [k \in 1..Len(log[i].data) |-> [tok |-> log[i].data[k], at |-> i]]
         \o OutLinesFrom(i + 1)
    ELSE OutLinesFrom(i + 1)

OutLines == OutLinesFrom(1)

\* the echo script has answered every line it was sent and the answers were read
Quiet == is_running /\ ptyIn = <<>> /\ ptyOut = <<>>

C9_ClosedOnce ==
    /\ [](\A fd \in 1..Len(fds) :
             /\ fds[fd].closes <= 1
             /\ fds[fd].open <=> fds[fd].closes = 0
             /\ fds[fd].open <=> fd \in {master_fd, slave_fd})
    /\ [][(StopReturned /\ master_fd = None /\ slave_fd = None) => UNCHANGED fds]_vars

\* stop_process() has been called twice in a row on a session that had a pty
C9_Witness ==
    /\ op.name = "stop_process"
    /\ Len(fds) > 0
    /\ Len(log) >= 3
    /\ IsEmit(log[Len(log)]) /\ IsEmit(log[Len(log) - 1]) /\ IsEmit(log[Len(log) - 2])
    /\ \A fd \in 1..Len(fds) : fds[fd].closes = 1

\* ------------------------------------------------------------------ C10
\* C10 (as claimed): a send_input whose os.write fails appends an
\* error-flagged message to the sink and leaves is_running, the process
\* handle, both descriptors and the timer as they were, with no
\* processFinished.
C10_WriteErrorFlagged ==
    [][(op'.name \in SendOps /\ op'.fail) =>
          /\ Last(log').kind = "err_send" /\ Last(log').error
          /\ UNCHANGED <<is_running, process, master_fd, slave_fd, timer, fds>>
          /\ Emits(log') = Emits(log)]_vars

\* ------------------------------------------------------------------ C11
TickOps == {"read_pty", "stale_read_pty"}

\* C11: a read_pty that finds is_running false or master_fd None reads
\* nothing, appends nothing to the sink, emits no processFinished, changes
\* nothing of the session and leaves the timer stopped.
C11_TickAfterStopNoop ==
    [][(op'.name \in TickOps /\ (~is_running \/ master_fd = None)) =>
          /\ UNCHANGED <<process, master_fd, slave_fd, is_running, output, fds,
                         children, ptyIn, ptyOut, log>>
          /\ ~timer']_vars

\* read_pty has returned in a session that stop_process had cleared
C11_Witness ==
    /\ op.name = "stale_read_pty"
    /\ Len(fds) > 0 /\ master_fd = None /\ slave_fd = None
    /\ ~is_running /\ ~timer

\* ------------------------------------------------------------------ C12
IsOpen(fd) == fd # None /\ fds[fd].open

\* C12: between operations master_fd and slave_fd are both None or both
\* refer to open descriptors.
C12_BothOrNeither ==
    \/ master_fd = None /\ slave_fd = None
    \/ IsOpen(master_fd) /\ IsOpen(slave_fd) /\ master_fd # slave_fd

\* a run_command has failed after the pty was allocated
C12_Witness ==
    /\ op.name = "run_command" /\ op.fail
    /\ IsOpen(master_fd) /\ IsOpen(slave_fd)

\* ------------------------------------------------------------------ C13
\* C13: between operations is_running is true exactly when a process handle
\* is held and both descriptors are open.
C13_RunningIffHeldAndOpen ==
    is_running <=> (process # None /\ IsOpen(master_fd) /\ IsOpen(slave_fd))

\* a start failed at Popen, after is_running had been set and the pty opened
C13_Witness ==
    /\ op.name = "run_command" /\ op.fail
    /\ IsOpen(master_fd) /\ IsOpen(slave_fd)
    /\ process = None /\ ~is_running

\* ------------------------------------------------------------------ C14
LiveChildren == {p \in DOMAIN children : children[p].st = "alive"}

\* C14 (as claimed): at most one child spawned by the terminal is alive at
\* any time, also when run_command is called while a child still runs.
C14_OneLiveChild == Cardinality(LiveChildren) <= 1

\* ------------------------------------------------------------------ C15
\* the child of the running session has exited and no tick has seen it yet
ExitPending ==
    is_running /\ process # None /\ children[process].st = "exited"

IsExitText(e) == e.ev = "text" /\ e.kind = "exit"

\* the last tick reported the exit code and tore the session down
ExitReported ==
    /\ Len(log) >= 2
    /\ IsExitText(log[Len(log) - 1]) /\ IsEmit(log[Len(log)])
    /\ Cleared /\ ~timer /\ NoOpenDescriptor

\* the ticks of the session were ended from outside: stop_process or
\* run_command stopped its timer before a tick came
TicksEnded == op.name \in {"stop_process", "run_command"}

\* C15: under fairness of the timer, once the child of a running session
\* has exited, the session reaches Idle with the exit code in the sink, the
\* descriptors closed and the timer stopped - as long as its ticks keep
\* coming, that is unless stop_process or run_command end them first.
C15_ExitDetected == ExitPending ~> (ExitReported \/ TicksEnded)

\* a tick has reported the exit of the child and stopped the session
C15_Witness ==
    /\ op.name = "read_pty"
    /\ ExitReported

\* ------------------------------------------------------------------ C16
\* the tick of this step met a read anomaly: select or os.read raised, or
\* os.read returned no bytes
Anomaly == op'.name = "read_pty" /\ op'.arg # "ok"

Silent == (op'.arg = "eof") \/ (op'.arg = "oserror" /\ op'.errno = EIO)

\* C16: a tick that meets a read anomaly ends in stop_process - session
\* cleared, timer stopped, one processFinished, nothing retried; EOF and
\* errno 5 add no text to the sink, any other OSError or exception adds
\* exactly its error message before the session is stopped.
C16_AnomalyStops ==
    [][Anomaly =>
          /\ Cleared' /\ ~timer' /\ NoOpenDescriptor'
          /\ Emits(log') = Emits(log) + 1 /\ IsEmit(Last(log'))
          /\ Silent => output' = output
          /\ ~Silent =>
                /\ Len(output') = Len(output) + 1
                /\ SubSeq(output', 1, Len(output)) = output
                /\ Last(output').kind =
                       (IF op'.arg = "select_exc" THEN "err_read" ELSE "err_pty")
                /\ log'[Len(log') - 1] = Last(output')]_vars

\* a tick whose os.read raised an OSError other than errno 5 has reported
\* it and stopped the session
C16_Witness ==
    /\ op.name = "read_pty" /\ op.arg = "oserror" /\ op.errno # EIO
    /\ Cleared /\ ~timer
    /\ output # <<>> /\ Last(output).kind = "err_pty"

\* ------------------------------------------------------------------ C17
\* the child of the running session lives and the master holds no data
Hung ==
    /\ is_running /\ process # None
    /\ children[process].st = "alive"
    /\ ptyOut = <<>>

\* the session the step started in is over after it
Left == ~is_running' \/ process' # process

\* C17: while the child lives, the master holds no data and select / os.read
\* report no error, a tick changes nothing of the session, and such a
\* session is left only by a step of stop_process or run_command.
C17_HungStaysRunning ==
    [][Hung =>
          /\ (op'.name \in TickOps /\ op'.arg = "ok") =>
                UNCHANGED <<is_running, process, master_fd, slave_fd, timer, fds,
                            children, output, log>>
          /\ (Left /\ ~Anomaly) => op'.name \in {"stop_process", "run_command"}]_vars

\* a tick has come and gone in a session whose child has printed nothing
C17_Witness ==
    /\ op.name = "read_pty" /\ op.arg = "ok"
    /\ Hung /\ timer
    /\ Len(log) = 2

\* ------------------------------------------------------------------ C18
\* in this step the session's handle of a child is given up
Dropped == process # None /\ process' # process

\* C18: the step that gives up the handle of a living child sends SIGTERM
\* to its process group once; no group is signalled more than once, a
\* signalled child is no longer held, and a child that has exited is not
\* signalled.
C18_SignalledOnce ==
    /\ [](\A p \in DOMAIN children :
             /\ children[p].signals <= 1
             /\ children[p].signals = 1 => p # process
             /\ children[p].st = "exited" => children[p].signals = 0)
    /\ [][(Dropped /\ children[process].st = "alive") =>
             /\ process \in DOMAIN children'
             /\ children'[process].signals = 1]_vars
    /\ [][(Dropped /\ children[process].st = "exited") =>
             /\ process \notin DOMAIN children'
             /\ \A p \in DOMAIN children' :
                   children'[p].signals =
                       (IF p \in DOMAIN children THEN children[p].signals ELSE 0)]_vars

\* a living child has been sent SIGTERM and stop_process was called again
C18_Witness ==
    /\ op.name = "stop_process"
    /\ Len(log) >= 2 /\ IsEmit(log[Len(log)]) /\ IsEmit(log[Len(log) - 1])
    /\ \E p \in DOMAIN children :
          children[p].st = "alive" /\ children[p].signals = 1

\* ------------------------------------------------------------------ C19
\* C19: between operations the timer is active only if is_running holds
\* and both descriptors are open; after a failed run_command it is stopped.
C19_TimerOnlyWhileRunning ==
    /\ timer => (is_running /\ IsOpen(master_fd) /\ IsOpen(slave_fd))
    /\ (op.name = "run_command" /\ op.fail) => ~timer

\* run_command, called while a session ran, has failed after allocating the pty
C19_Witness ==
    /\ op.name = "run_command" /\ op.fail
    /\ IsOpen(master_fd)
    /\ LiveChildren # {}
    /\ ~timer

\* ------------------------------------------------------------------ C20
OpenDescriptors == {fd \in 1..Len(fds) : fds[fd].open}

\* C20: at most one pty pair is open at any time, and every open descriptor
\* is the one master_fd or slave_fd refers to: run_command overwrites
\* neither field while it refers to an open descriptor.
C20_OnePairOpen ==
    /\ Cardinality(OpenDescriptors) <= 2
    /\ OpenDescriptors \subseteq {master_fd, slave_fd}

\* a run_command has replaced the pair a failed start had left open
C20_Witness ==
    /\ op.name = "run_command"
    /\ Len(fds) = 4
    /\ fds[1].closes = 1 /\ fds[2].closes = 1
    /\ OpenDescriptors = {3, 4}

====
